---- MODULE Spec2Model ----
(***************************************************************************)
(* The JSString bridge of src/src/string.rs: a wrapper that owns one       *)
(* JavaScriptCore string handle (UTF-16 code units) and converts to and    *)
(* from native UTF-8 strings.                                              *)
(*                                                                         *)
(* A native string is the sequence of its UTF-8 bytes, a handle's content  *)
(* the sequence of its UTF-16 code units.  The engine's primitives         *)
(* (sys::JSString...) are modelled from their documented contract.         *)
(***************************************************************************)
EXTENDS Integers, Sequences, FiniteSets

\* ------------------------------------------------------------------ bounds

\* Longest "core" of an input string, in Unicode scalars (padding comes on top).
MaxLen == 2
\* Wrapper values that may be alive at once in the two-wrapper specification.
MaxWrappers == 2
\* Handles the engine hands out in one behaviour.
MaxHandles == 2

\* --------------------------------------------------------------- constants

\* const SMALL_STRING_SIZE of fmt::Display, js_string_equals_str and
\* js_string_from_str (three constants of the same name and value).
SMALL_STRING_SIZE == 128
SMALL_STRING_SIZE_equals == 128
SMALL_STRING_SIZE_from == 128

\* ------------------------------------------------------------------ inputs

\* NUL, 'a', U+2200 (3 UTF-8 bytes, 1 code unit), U+1F604 (4 bytes, 2 units).
Alphabet == {0, 97, 8704, 128516}

Pad(n) == [i \in 1..n |-> 97]

\* Padding lengths: none, around the Decoder's switch (bound 3*42+1 = 127 vs
\* 3*43+1 = 130) and around the Encoder's switch (127 / 128 / 129 bytes).
Pads == {0, 41, 126}

Cores == UNION {[1..n -> Alphabet] : n \in 0..MaxLen}

\* --------------------------------------------------------- UTF-8 and UTF-16

\* The UTF-8 bytes of one Unicode scalar (how a Rust str stores it).
Utf8OfScalar(c) ==
  IF c < 128 THEN <<c>>
  ELSE IF c < 2048 THEN <<192 + (c \div 64), 128 + (c % 64)>>
  ELSE IF c < 65536
    THEN <<224 + (c \div 4096), 128 + ((c \div 64) % 64), 128 + (c % 64)>>
  ELSE <<240 + (c \div 262144), 128 + ((c \div 4096) % 64),
         128 + ((c \div 64) % 64), 128 + (c % 64)>>

\* The bytes of the scalars cs[lo..hi], by halves.
RECURSIVE Utf8EncodeRange(_, _, _)
Utf8EncodeRange(cs, lo, hi) ==
  IF lo > hi THEN <<>>
  ELSE IF lo = hi THEN Utf8OfScalar(cs[lo])
  ELSE LET mid == (lo + hi) \div 2
       IN Utf8EncodeRange(cs, lo, mid) \o Utf8EncodeRange(cs, mid + 1, hi)

\* s.as_bytes() of the native string whose scalars are cs.
as_bytes(cs) == Utf8EncodeRange(cs, 1, Len(cs))

\* The UTF-16 code units of one Unicode scalar.
Utf16OfScalar(c) ==
  IF c < 65536 THEN <<c>>
  ELSE <<55296 + ((c - 65536) \div 1024), 56320 + ((c - 65536) % 1024)>>

\* The code units of the scalars cs[lo..hi], by halves.
RECURSIVE Utf16EncodeRange(_, _, _)
Utf16EncodeRange(cs, lo, hi) ==
  IF lo > hi THEN <<>>
  ELSE IF lo = hi THEN Utf16OfScalar(cs[lo])
  ELSE LET mid == (lo + hi) \div 2
       IN Utf16EncodeRange(cs, lo, mid) \o Utf16EncodeRange(cs, mid + 1, hi)

\* The UTF-16 code units of the text whose scalars are cs.
Utf16Units(cs) == Utf16EncodeRange(cs, 1, Len(cs))

\* Length of the UTF-8 sequence a lead byte announces (0: not a lead byte).
SeqLenOfLead(b) ==
  IF b < 128 THEN 1
  ELSE IF b >= 194 /\ b < 224 THEN 2
  ELSE IF b >= 224 /\ b < 240 THEN 3
  ELSE IF b >= 240 /\ b < 245 THEN 4
  ELSE 0

IsCont(b) == b >= 128 /\ b < 192

\* The scalar of the k-byte sequence at bs[i].
ScalarAt(bs, i, k) ==
  IF k = 1 THEN bs[i]
  ELSE IF k = 2 THEN (bs[i] - 192) * 64 + (bs[i + 1] - 128)
  ELSE IF k = 3
    THEN (bs[i] - 224) * 4096 + (bs[i + 1] - 128) * 64 + (bs[i + 2] - 128)
  ELSE (bs[i] - 240) * 262144 + (bs[i + 1] - 128) * 4096
       + (bs[i + 2] - 128) * 64 + (bs[i + 3] - 128)

\* A well-formed UTF-8 sequence of k bytes starts at bs[i]: complete, with
\* continuation bytes, not overlong, no surrogate, at most U+10FFFF.
WellFormedAt(bs, i, k) ==
  /\ k >= 1
  /\ i + k - 1 <= Len(bs)
  /\ \A j \in 1..(k - 1) : IsCont(bs[i + j])
  /\ LET c == ScalarAt(bs, i, k)
     IN /\ (k = 3 => c >= 2048 /\ ~(c >= 55296 /\ c <= 57343))
        /\ (k = 4 => c >= 65536 /\ c <= 1114111)

\* Byte i continues the sequence of the lead byte before it (at most three
\* bytes back).
Covered(bs, i) ==
  \E j \in 1..(i - 1) :
    /\ i - j <= 3
    /\ ~IsCont(bs[j])
    /\ \A m \in (j + 1)..(i - 1) : IsCont(bs[m])
    /\ SeqLenOfLead(bs[j]) > i - j

\* bs is well-formed UTF-8: every lead byte starts a well-formed sequence and
\* every continuation byte belongs to one.
WellFormed(bs) ==
  \A i \in 1..Len(bs) :
    IF IsCont(bs[i]) THEN Covered(bs, i)
    ELSE WellFormedAt(bs, i, SeqLenOfLead(bs[i]))

\* The scalars of the sequences that start in bs[lo..hi], by halves.
RECURSIVE ScalarsRange(_, _, _)
ScalarsRange(bs, lo, hi) ==
  IF lo > hi THEN <<>>
  ELSE IF lo = hi
    THEN IF IsCont(bs[lo]) THEN <<>>
         ELSE <<ScalarAt(bs, lo, SeqLenOfLead(bs[lo]))>>
  ELSE LET mid == (lo + hi) \div 2
       IN ScalarsRange(bs, lo, mid) \o ScalarsRange(bs, mid + 1, hi)

\* The scalars of a UTF-8 byte sequence, or ok = FALSE when it is ill-formed.
Utf8Decode(bs) ==
  IF WellFormed(bs) THEN [ok |-> TRUE, scalars |-> ScalarsRange(bs, 1, Len(bs))]
  ELSE [ok |-> FALSE, scalars |-> <<>>]

\* A conversion that accepts any bytes (from_utf8_unchecked).
from_utf8_unchecked(bs) == TRUE

\* std::str::from_utf8 / String::from_utf8: Ok exactly for well-formed UTF-8.
from_utf8_ok(bs) == WellFormed(bs)

IsHigh(u) == u >= 55296 /\ u <= 56319
IsLow(u) == u >= 56320 /\ u <= 57343


\* usize::MAX, the value 0usize - 1 wraps to when overflow checks are off,
\* represented by the largest integer TLC computes with.
USIZE_MAX == 2147483647

\* ----------------------------------------------- the engine's primitives

\* strlen: the number of bytes before the first zero byte of the buffer.
StrLen(buf) ==
  (CHOOSE i \in 1..Len(buf) :
     buf[i] = 0 /\ \A j \in 1..(i - 1) : buf[j] # 0) - 1

\* The C string a pointer to buf denotes: the bytes before its terminator.
CStr(buf) == SubSeq(buf, 1, StrLen(buf))

\* JSStringCreateWithUTF8CString: the code units of the C string's text (the
\* empty string when the bytes are not UTF-8).
UnitsOfDecoded(r) == IF r.ok THEN Utf16Units(r.scalars) ELSE <<>>

JSStringCreateWithUTF8CString(ptr) == UnitsOfDecoded(Utf8Decode(CStr(ptr)))

\* JSStringGetLength: the number of UTF-16 code units.
JSStringGetLength(units) == Len(units)

\* JSStringGetMaximumUTF8CStringSize: three bytes per code unit and the
\* terminator.
JSStringGetMaximumUTF8CStringSize(units) == Len(units) * 3 + 1

\* How the engine treats an unpaired surrogate when it fills a buffer:
\* "strict" stops and reports 0 bytes written; "lenient" writes the surrogate's
\* three-byte form, which is not well-formed UTF-8 (a contract violation).
FillModes == {"strict", "lenient"}

\* Unit i is the low half of a surrogate pair / the start of one / unpaired.
PairSecond(us, i) == IsLow(us[i]) /\ i > 1 /\ IsHigh(us[i - 1])
PairFirst(us, i) == IsHigh(us[i]) /\ i < Len(us) /\ IsLow(us[i + 1])
Lone(us, i) ==
  (IsHigh(us[i]) \/ IsLow(us[i])) /\ ~PairFirst(us, i) /\ ~PairSecond(us, i)

\* The UTF-8 bytes the character at unit i becomes (none for the low half of
\* a pair; an unpaired surrogate gets its three-byte form).
BytesOfUnit(us, i) ==
  IF PairSecond(us, i) THEN <<>>
  ELSE IF PairFirst(us, i)
    THEN Utf8OfScalar(65536 + (us[i] - 55296) * 1024 + (us[i + 1] - 56320))
  ELSE Utf8OfScalar(us[i])

\* The bytes of the characters at units lo..hi, by halves.
RECURSIVE BytesRange(_, _, _)
BytesRange(us, lo, hi) ==
  IF lo > hi THEN <<>>
  ELSE IF lo = hi THEN BytesOfUnit(us, lo)
  ELSE LET mid == (lo + hi) \div 2
       IN BytesRange(us, lo, mid) \o BytesRange(us, mid + 1, hi)

\* UTF-16 to UTF-8 into at most room bytes, whole characters only: the
\* conversion stops at the first character that is an unpaired surrogate (in
\* strict mode: a failure) or no longer fits.
ConvertAll(us, room, mode, all) ==
  LET fits == Len(all) <= room
      stops == {i \in 1..Len(us) :
                  /\ ~PairSecond(us, i)
                  /\ \/ Lone(us, i) /\ mode = "strict"
                     \/ ~fits /\ Len(BytesRange(us, 1, i)) > room}
  IN IF stops = {} THEN [bytes |-> all, failed |-> FALSE]
     ELSE LET stop == CHOOSE i \in stops : \A j \in 1..(i - 1) : j \notin stops
          IN [bytes |-> BytesRange(us, 1, stop - 1),
              failed |-> Lone(us, stop) /\ mode = "strict"]

ConvertUtf16ToUtf8(us, room, mode) ==
  ConvertAll(us, room, mode, BytesRange(us, 1, Len(us)))

\* The fill's result from the conversion's: the terminator appended, the count
\* 0 after a failure.
Filled(r) ==
  [bytes |-> r.bytes \o <<0>>, n |-> IF r.failed THEN 0 ELSE Len(r.bytes) + 1]

\* JSStringGetUTF8CString: the bytes written to the buffer (terminator
\* included) and the count reported (terminator included; 0 on failure).
JSStringGetUTF8CString(units, bufferSize, mode) ==
  IF bufferSize = 0 THEN [bytes |-> <<>>, n |-> 0]
  ELSE Filled(ConvertUtf16ToUtf8(units, bufferSize - 1, mode))

\* JSStringIsEqual: the same code units.
JSStringIsEqual(a, b) == a = b

\* JSStringIsEqualToUTF8CString: equal to the string the C string creates.
JSStringIsEqualToUTF8CString(a, ptr) ==
  JSStringIsEqual(a, JSStringCreateWithUTF8CString(ptr))

\* JSStringRelease on handle h of the engine's table hp.
JSStringRelease(hp, h) ==
  [hp EXCEPT ![h] = [units |-> <<>>, releases |-> @.releases + 1]]

\* -------------------------------------------------- src/src/string.rs

\* let mut buffer = [0u8; SMALL_STRING_SIZE + 1]; copy the bytes; terminate.
StackBufferOf(bytes, size) ==
  [i \in 1..(size + 1) |-> IF i <= Len(bytes) THEN bytes[i] ELSE 0]

\* CString::new(bytes): an error when a byte is zero, else the bytes and a
\* terminator.
CString_new(bytes) ==
  IF \E i \in 1..Len(bytes) : bytes[i] = 0
    THEN [ok |-> FALSE, ptr |-> <<>>]
    ELSE [ok |-> TRUE, ptr |-> Append(bytes, 0)]

\* js_string_from_str up to the call of the creation primitive: the buffer
\* whose address is passed, or the panic of CString::new(..).unwrap().
js_string_from_str(s) ==
  IF Len(s) < SMALL_STRING_SIZE_from
    THEN [outcome |-> "ok", ptr |-> StackBufferOf(s, SMALL_STRING_SIZE_from)]
    ELSE IF CString_new(s).ok
      THEN [outcome |-> "ok", ptr |-> CString_new(s).ptr]
      ELSE [outcome |-> "panic", ptr |-> <<>>]

\* js_string_equals_str: the comparison's value, or the panic of
\* CString::new(..).unwrap().
js_string_equals_str(units, rust_str) ==
  IF Len(rust_str) < SMALL_STRING_SIZE_equals
    THEN [outcome |-> "ok",
          val |-> JSStringIsEqualToUTF8CString(
                    units, StackBufferOf(rust_str, SMALL_STRING_SIZE_equals))]
    ELSE IF CString_new(rust_str).ok
      THEN [outcome |-> "ok",
            val |-> JSStringIsEqualToUTF8CString(
                      units, CString_new(rust_str).ptr)]
      ELSE [outcome |-> "panic", val |-> FALSE]

\* JSString::len
JSString_len(units) == JSStringGetLength(units)

\* JSString::is_empty
JSString_is_empty(units) == JSString_len(units) = 0

\* impl PartialEq for JSString
JSString_eq(a, b) == JSStringIsEqual(a, b)

\* A drop that forgets the release.
JSString_drop_forget(hp, h) == hp

\* impl Drop for JSString: the engine's table after the drop.
JSString_drop(hp, h) == JSStringRelease(hp, h)


\* The branch of fmt taken with a threshold twice the stack buffer's size.
UseStackBuffer_wide(max_size) == max_size <= 2 * SMALL_STRING_SIZE

\* if max_size <= SMALL_STRING_SIZE
UseStackBuffer(max_size) == max_size <= SMALL_STRING_SIZE

\* The terminator kept: actual_size itself.
TrimTerminator_keep(actual_size) == actual_size

\* actual_size - 1 in usize: 0 - 1 wraps (a panic first, with overflow checks).
TrimTerminator(actual_size) ==
  IF actual_size = 0 THEN USIZE_MAX ELSE actual_size - 1

\* What a use of a Vec whose length was set beyond its capacity may do
\* (undefined behaviour): validation fails on the bytes read and unwrap
\* panics, or the read leaves the process's memory and the process dies.
UbOutcomes == {"panic", "abort"}

\* The ways an operation that ended as `outcome` may end.
OutcomesOf(outcome) == IF outcome = "undefined" THEN UbOutcomes ELSE {outcome}

\* from_utf8(..).unwrap() on the trimmed bytes s, then write!(fmt, "{s}").
Validated(s, did) ==
  IF from_utf8_ok(s)
    THEN [outcome |-> "ok", why |-> "", out |-> s,
          did |-> [did EXCEPT
                     !.log = @ \o <<"trim", "from_utf8", "write">>]]
    ELSE [outcome |-> "panic", why |-> "from_utf8", out |-> <<>>,
          did |-> [did EXCEPT !.log = @ \o <<"trim", "from_utf8">>]]

\* fmt after the fill: trim the terminator, validate, write.
AfterFill(small, cap, fill, checks, did) ==
  IF fill.n = 0 /\ checks
    THEN [outcome |-> "panic", why |-> "subtract with overflow", out |-> <<>>,
          did |-> [did EXCEPT !.log = Append(@, "trim")]]
  ELSE IF TrimTerminator(fill.n) > cap
    THEN IF small
           THEN [outcome |-> "panic", why |-> "slice index", out |-> <<>>,
                 did |-> [did EXCEPT !.log = Append(@, "trim")]]
           ELSE [outcome |-> "undefined", why |-> "set_len beyond capacity",
                 out |-> <<>>, did |-> [did EXCEPT !.log = Append(@, "trim")]]
  ELSE Validated(
         SubSeq(IF small
                  THEN [i \in 1..cap |->
                          IF i <= Len(fill.bytes) THEN fill.bytes[i] ELSE 0]
                  ELSE fill.bytes,
                1, TrimTerminator(fill.n)),
         did)

\* fmt from the fill on: the buffer is the 128-byte array (small) or a Vec of
\* capacity max_size, and `passed` is the size given to the fill.
WithFill(max_size, small, cap, passed, fill, checks) ==
  AfterFill(small, cap, fill, checks,
    [active |-> TRUE, bound |-> max_size,
     kind |-> IF small THEN "stack" ELSE "heap",
     cap |-> cap, passed |-> passed, n |-> fill.n, fills |-> 1,
     wrote |-> SubSeq(fill.bytes, 1, Len(fill.bytes) - 1),
     underflow |-> fill.n = 0,
     log |-> <<"max_size", "buffer", "fill">>])

\* fmt from the choice of the buffer on.
WithBuffer(units, max_size, small, mode, checks) ==
  IF small
    THEN WithFill(max_size, small, SMALL_STRING_SIZE, SMALL_STRING_SIZE,
                  JSStringGetUTF8CString(units, SMALL_STRING_SIZE, mode),
                  checks)
    ELSE WithFill(max_size, small, max_size, max_size,
                  JSStringGetUTF8CString(units, max_size, mode), checks)

\* impl fmt::Display for JSString, fmt: the decoded text, or how the decode
\* ends, with what the decode did: the bound queried, the buffer chosen, the
\* size passed to the fill, the count it reported, the bytes it wrote.
\* checks: the build has overflow checks.  The outcome is "ok", "panic" or
\* "undefined" (the decode ran into undefined behaviour).
Display_fmt(units, mode, checks) ==
  WithBuffer(units, JSStringGetMaximumUTF8CStringSize(units),
             UseStackBuffer(JSStringGetMaximumUTF8CStringSize(units)),
             mode, checks)

\* "JSString { \"" and "\" }"
DebugOpen == <<74, 83, 83, 116, 114, 105, 110, 103, 32, 123, 32, 34>>
DebugClose == <<34, 32, 125>>

\* impl fmt::Debug for JSString, fmt: the Display text between the quotes.
Quoted(r) ==
  IF r.outcome = "ok"
    THEN [r EXCEPT !.out = DebugOpen \o r.out \o DebugClose]
    ELSE r

Debug_fmt(units, mode, checks) == Quoted(Display_fmt(units, mode, checks))


\* ------------------------------------------------------------------- state

VARIABLES
  wrappers,         \* slot -> the JSString value held there, if any
  heap,             \* the engine's handles: code units, release calls so far
  status,           \* "running", "unwinding" (after a panic), "aborted"
  last,             \* the last operation and what it returned
  dec,              \* what the last decode did
  misuse,           \* a primitive was called on a released handle
  overflow_checks   \* the build panics on integer overflow (debug profile)

vars == <<wrappers, heap, status, last, dec, misuse, overflow_checks>>

Slots == 1..MaxWrappers

NoWrapper == [live |-> FALSE, raw |-> 0, src |-> <<>>, origin |-> "none"]

NoDec == [active |-> FALSE, bound |-> 0, kind |-> "none", cap |-> 0,
          passed |-> 0, n |-> 0, fills |-> 0, wrote |-> <<>>,
          underflow |-> FALSE, log |-> <<>>]

Did(op, slot, outcome) ==
  [op |-> op, slot |-> slot, other |-> 0, outcome |-> outcome, num |-> 0,
   flag |-> FALSE, out |-> <<>>, arg |-> <<>>]

\* The native strings the operations are given.
Inputs == {as_bytes(c \o Pad(p)) : c \in Cores, p \in Pads}

\* The native strings handles are compared with, besides their own source.
CompareProbes ==
  {as_bytes(c) : c \in {<<>>, <<97>>, <<0>> \o Pad(127), Pad(128)}}

\* The native strings of the two-wrapper specification.
PairInputs ==
  {as_bytes(c) : c \in {<<>>, <<0>>, <<97>>, <<97, 0>> \o Pad(126)}}

\* Contents of the handles the engine hands over (JavaScript strings may hold
\* U+0000 and unpaired surrogates).
ReceivedUnits ==
  {<<55296>>, <<97, 56320>>, <<97, 0, 98>>, <<55357, 56836>>,
   <<55296>> \o Pad(43), Pad(43)}

Init ==
  /\ wrappers = [w \in Slots |-> NoWrapper]
  /\ heap = <<>>
  /\ status = "running"
  /\ last = Did("none", 0, "ok")
  /\ dec = NoDec
  /\ misuse = FALSE
  /\ overflow_checks \in BOOLEAN

Units(w) == heap[wrappers[w].raw].units

\* The modes that are told apart on the handle of slot w: the engine's
\* treatment of an unpaired surrogate shows only when there is one.
ModesFor(w) ==
  IF wrappers[w].live /\ \E i \in 1..Len(Units(w)) : Lone(Units(w), i)
    THEN FillModes
    ELSE {"strict"}

Released(w) == heap[wrappers[w].raw].releases > 0

\* The state after an operation on the wrapper of slot w that ends as
\* `outcome`: a panic starts unwinding, an abort ends the process.
Ends(outcome) ==
  status' = (IF outcome = "ok" THEN "running"
             ELSE IF outcome = "panic" THEN "unwinding" ELSE "aborted")

\* The end of js_string_from_str: the creation primitive is called with the
\* buffer's address and its handle wrapped, unless CString::new panicked.
Constructed(w, s, r) ==
  /\ Ends(r.outcome)
  /\ last' = [Did("construct", w, r.outcome) EXCEPT !.arg = s]
  /\ IF r.outcome = "ok"
       THEN /\ heap' = Append(heap,
                 [units |-> JSStringCreateWithUTF8CString(r.ptr),
                  releases |-> 0])
            /\ wrappers' = [wrappers EXCEPT ![w] =
                 [live |-> TRUE, raw |-> Len(heap) + 1, src |-> s,
                  origin |-> "encoder"]]
       ELSE UNCHANGED <<heap, wrappers>>

\* JSString::from(s): js_string_from_str and the wrapper around the new handle.
Construct(w, s) ==
  /\ status = "running"
  /\ ~wrappers[w].live
  /\ Len(heap) < MaxHandles
  /\ Constructed(w, s, js_string_from_str(s))
  /\ dec' = NoDec
  /\ UNCHANGED <<misuse, overflow_checks>>

\* A JSString wrapping a handle received from the engine.
Receive(w, us) ==
  /\ status = "running"
  /\ ~wrappers[w].live
  /\ Len(heap) < MaxHandles
  /\ heap' = Append(heap, [units |-> us, releases |-> 0])
  /\ wrappers' = [wrappers EXCEPT ![w] =
       [live |-> TRUE, raw |-> Len(heap) + 1, src |-> <<>>,
        origin |-> "received"]]
  /\ last' = Did("receive", w, "ok")
  /\ dec' = NoDec
  /\ UNCHANGED <<status, misuse, overflow_checks>>

\* s.len()
Length(w) ==
  /\ status = "running"
  /\ wrappers[w].live
  /\ last' = [Did("len", w, "ok") EXCEPT !.num = JSString_len(Units(w))]
  /\ misuse' = (misuse \/ Released(w))
  /\ dec' = NoDec
  /\ UNCHANGED <<wrappers, heap, status, overflow_checks>>

\* s.is_empty()
IsEmpty(w) ==
  /\ status = "running"
  /\ wrappers[w].live
  /\ last' = [Did("is_empty", w, "ok") EXCEPT
                !.flag = JSString_is_empty(Units(w)),
                !.num = JSString_len(Units(w))]
  /\ misuse' = (misuse \/ Released(w))
  /\ dec' = NoDec
  /\ UNCHANGED <<wrappers, heap, status, overflow_checks>>

\* The end of a formatting call whose fmt returned r.
Formatted(op, w, r) ==
  /\ \E how \in OutcomesOf(r.outcome) :
       /\ Ends(how)
       /\ last' = [Did(op, w, how) EXCEPT !.out = r.out]
  /\ dec' = r.did

\* s.to_string() / String::from(&s): the Display text.
to_string(w, mode) ==
  /\ status = "running"
  /\ wrappers[w].live
  /\ Formatted("to_string", w,
                 Display_fmt(Units(w), mode, overflow_checks))
  /\ misuse' = (misuse \/ Released(w))
  /\ UNCHANGED <<wrappers, heap, overflow_checks>>

\* format!("{:?}", s)
DebugFormat(w, mode) ==
  /\ status = "running"
  /\ wrappers[w].live
  /\ Formatted("debug", w, Debug_fmt(Units(w), mode, overflow_checks))
  /\ misuse' = (misuse \/ Released(w))
  /\ UNCHANGED <<wrappers, heap, overflow_checks>>

\* a == b for two JSStrings
EqHandle(w, v) ==
  /\ status = "running"
  /\ wrappers[w].live
  /\ wrappers[v].live
  /\ last' = [Did("eq", w, "ok") EXCEPT
                !.other = v, !.flag = JSString_eq(Units(w), Units(v))]
  /\ misuse' = (misuse \/ Released(w) \/ Released(v))
  /\ dec' = NoDec
  /\ UNCHANGED <<wrappers, heap, status, overflow_checks>>

\* The end of a comparison with a native string that returned r.
Compared(w, t, r) ==
  /\ Ends(r.outcome)
  /\ \E op \in {"eq_str", "str_eq"} :
       last' = [Did(op, w, r.outcome) EXCEPT !.flag = r.val, !.arg = t]

\* js == t ("eq_str") and t == js ("str_eq") for a native string t: the four
\* impls all call js_string_equals_str(js, t).
EqStr(w, t) ==
  /\ status = "running"
  /\ wrappers[w].live
  /\ Compared(w, t, js_string_equals_str(Units(w), t))
  /\ misuse' = (misuse \/ Released(w))
  /\ dec' = NoDec
  /\ UNCHANGED <<wrappers, heap, overflow_checks>>


\* The wrapper of slot w goes out of scope (or the unwinding reaches it):
\* impl Drop for JSString runs, and the value is gone.
Drop(w) ==
  /\ status \in {"running", "unwinding"}
  /\ wrappers[w].live
  /\ heap' = JSString_drop(heap, wrappers[w].raw)
  /\ wrappers' = [wrappers EXCEPT ![w] = NoWrapper]
  /\ misuse' = (misuse \/ Released(w))
  /\ last' = Did("drop", w, "ok")
  /\ dec' = NoDec
  /\ UNCHANGED <<status, overflow_checks>>

\* One wrapper and one handle, every input string.
Next ==
  \/ heap = <<>> /\ \E s \in Inputs : Construct(1, s)
  \/ heap = <<>> /\ \E us \in ReceivedUnits : Receive(1, us)
  \/ Length(1)
  \/ IsEmpty(1)
  \/ \E mode \in ModesFor(1) : to_string(1, mode)
  \/ \E mode \in ModesFor(1) : DebugFormat(1, mode)
  \/ EqHandle(1, 1)
  \/ \E t \in {wrappers[1].src} \cup CompareProbes : EqStr(1, t)
  \/ Drop(1)

Spec == Init /\ [][Next]_vars

\* Several wrappers alive at once, a few input strings.
NextPair ==
  \/ \E w \in Slots, s \in PairInputs : Construct(w, s)
  \/ \E w \in Slots : Receive(w, <<55296>> \o Pad(43))
  \/ \E w \in Slots : Length(w)
  \/ \E w \in Slots : IsEmpty(w)
  \/ \E w \in Slots : \E mode \in ModesFor(w) : to_string(w, mode)
  \/ \E w \in Slots : \E mode \in ModesFor(w) : DebugFormat(w, mode)
  \/ \E w, v \in Slots : EqHandle(w, v)
  \/ \E w \in Slots :
       \E t \in {wrappers[w].src, as_bytes(<<0>> \o Pad(127))} : EqStr(w, t)
  \/ \E w \in Slots : Drop(w)

SpecPair == Init /\ [][NextPair]_vars


\* ------------------------------------------------------------------ claims

NoZero(s) == \A i \in 1..Len(s) : s[i] # 0

\* The number of UTF-16 code units of the text of the native string s.
Utf16Count(s) == Len(Utf16Units(ScalarsRange(s, 1, Len(s))))

\* The code units of the text of s before its first zero byte.
UnitsBeforeZero(s) ==
  Utf16Units(ScalarsRange(s, 1, StrLen(s)))

\* The wrapper the last operation was on came from the Encoder.
OnEncoded == last.slot \in Slots /\ wrappers[last.slot].origin = "encoder"

Src == wrappers[last.slot].src

\* C1: decoding the handle that encoding s produced gives s again, for every
\* native string s without a zero byte, on either side of the 128-byte
\* threshold.
RoundTrip ==
  (last.op = "to_string" /\ OnEncoded /\ NoZero(Src))
    => (last.outcome = "ok" /\ last.out = Src)

\* A string of at least 128 bytes with a non-ASCII character was encoded and
\* decoded through the heap buffer.
RoundTripWitness ==
  /\ last.op = "to_string" /\ OnEncoded /\ NoZero(Src)
  /\ Len(Src) >= SMALL_STRING_SIZE_from
  /\ \E i \in 1..Len(Src) : Src[i] > 127
  /\ dec.kind = "heap"
  /\ last.outcome = "ok"

\* C2: for every native string s, the length of encode(s) is the number of
\* UTF-16 code units of s.
LengthIsUtf16Count ==
  (last.op = "len" /\ OnEncoded) => last.num = Utf16Count(Src)

\* The statement of C2 for the strings without a zero byte only: it holds.
LengthOfZeroFree ==
  (last.op = "len" /\ OnEncoded /\ NoZero(Src)) => last.num = Utf16Count(Src)

\* C3: for every native string s, encode(s) exists and compares equal to s
\* with the handle on the left and on the right, both comparisons returning
\* true.
SymmetricEquality ==
  /\ (last.op = "construct" => last.outcome = "ok")
  /\ (last.op \in {"eq_str", "str_eq"} /\ OnEncoded /\ last.arg = Src)
       => (last.outcome = "ok" /\ last.flag)

\* The statement of C3 for the strings the Encoder returns a handle for
\* (those with a zero byte and fewer than 128 bytes included): it holds.
EqualityOfEncoded ==
  (last.op \in {"eq_str", "str_eq"} /\ OnEncoded /\ last.arg = Src)
    => (last.outcome = "ok" /\ last.flag)

\* C4: the handles of two native strings that differ as text compare unequal.
Distinctness ==
  (/\ last.op = "eq"
   /\ wrappers[last.slot].origin = "encoder"
   /\ wrappers[last.other].origin = "encoder"
   /\ wrappers[last.slot].src # wrappers[last.other].src)
    => ~last.flag

\* The statement of C4 for the strings without a zero byte only: it holds.
DistinctZeroFree ==
  (/\ last.op = "eq"
   /\ wrappers[last.slot].origin = "encoder"
   /\ wrappers[last.other].origin = "encoder"
   /\ NoZero(wrappers[last.slot].src)
   /\ NoZero(wrappers[last.other].src))
    => (last.flag = (wrappers[last.slot].src = wrappers[last.other].src))

Owners(h) == {w \in Slots : wrappers[w].live /\ wrappers[w].raw = h}

\* C5: every handle is owned by at most one wrapper; it has no release while
\* its wrapper lives and exactly one once the wrapper is gone, also when an
\* operation panicked and the wrappers are dropped by the unwinding; and no
\* primitive is ever called on a released handle.
HandleLifecycle ==
  /\ ~misuse
  /\ \A h \in 1..Len(heap) :
       /\ Cardinality(Owners(h)) <= 1
       /\ heap[h].releases = (IF Owners(h) = {} THEN 1 ELSE 0)

\* After a panic, the unwinding has dropped two wrappers and both handles
\* have their release.
HandleLifecycleWitness ==
  /\ status = "unwinding"
  /\ Len(heap) >= 2
  /\ \A w \in Slots : ~wrappers[w].live
  /\ \A h \in 1..Len(heap) : heap[h].releases = 1

\* C6: is_empty is length = 0, and is_empty(encode(s)) holds exactly when s is
\* the empty string.
Emptiness ==
  last.op = "is_empty"
    => /\ last.flag = (last.num = 0)
       /\ OnEncoded => (last.flag = (Src = <<>>))

\* The statement of C6 for the strings without a zero byte only: it holds.
EmptinessZeroFree ==
  (last.op = "is_empty" /\ OnEncoded /\ NoZero(Src))
    => (last.flag = (Src = <<>>))

\* C7: for every native string with a zero byte, of any byte length, the
\* Encoder signals no failure and returns a handle for the text before the
\* first zero byte.
SilentTruncation ==
  (last.op = "construct" /\ ~NoZero(last.arg))
    => /\ last.outcome = "ok"
       /\ wrappers[last.slot].live
       /\ heap[wrappers[last.slot].raw].units = UnitsBeforeZero(last.arg)

\* What the Encoder does with a zero byte: below 128 bytes the handle of the
\* text before it, from 128 bytes on a panic and no handle.
TruncationOrPanic ==
  (last.op = "construct" /\ ~NoZero(last.arg))
    => IF Len(last.arg) < SMALL_STRING_SIZE_from
         THEN /\ last.outcome = "ok"
              /\ heap[wrappers[last.slot].raw].units = UnitsBeforeZero(last.arg)
         ELSE /\ last.outcome = "panic"
              /\ ~wrappers[last.slot].live
              /\ heap = <<>>

\* C8: a decode queries the bound, then chooses the buffer, then fills it; the
\* buffer is the 128-byte array exactly when the bound is at most 128 and
\* else a heap buffer of the bound; its capacity is at least the bound, the
\* size passed to the fill is at most the capacity, and what the fill wrote
\* fits.
BufferSafety ==
  dec.active
    => /\ SubSeq(dec.log, 1, 3) = <<"max_size", "buffer", "fill">>
       /\ dec.bound = JSStringGetMaximumUTF8CStringSize(
                        heap[wrappers[last.slot].raw].units)
       /\ dec.cap >= dec.bound
       /\ (dec.kind = "stack") = (dec.bound <= SMALL_STRING_SIZE)
       /\ dec.kind = "stack" => dec.cap = SMALL_STRING_SIZE
       /\ dec.kind = "heap" => dec.cap = dec.bound
       /\ dec.passed <= dec.cap
       /\ Len(dec.wrote) + 1 <= dec.cap

\* A decode whose bound is just above the threshold used the heap buffer.
BufferSafetyWitness ==
  /\ dec.active
  /\ dec.kind = "heap"
  /\ dec.bound = SMALL_STRING_SIZE + 2

\* C9: whatever count n the fill reports, the decode computes n - 1 without
\* underflow and the string it produces has n - 1 bytes.
ResultLength ==
  last.op \in {"to_string"}
    => /\ ~dec.underflow
       /\ last.outcome = "ok" => Len(last.out) = dec.n - 1

\* The statement of C9 for the counts n >= 1: it holds.
ResultLengthOfWritten ==
  (last.op \in {"to_string"} /\ dec.n >= 1)
    => /\ ~dec.underflow
       /\ last.outcome = "ok" => Len(last.out) = dec.n - 1

\* C10: when the fill leaves bytes that are not well-formed UTF-8, the decode
\* (stack or heap) ends in a panic: it returns no string, and the fill was
\* called once.
InvalidUtf8IsFatal ==
  (last.op \in {"to_string", "debug"} /\ ~WellFormed(dec.wrote))
    => /\ last.outcome = "panic"
       /\ status # "running"
       /\ last.out = <<>>
       /\ dec.fills = 1

\* The fill left ill-formed bytes in the heap buffer and the decode panicked.
InvalidUtf8IsFatalWitness ==
  /\ last.op = "to_string"
  /\ ~WellFormed(dec.wrote)
  /\ dec.kind = "heap"
  /\ last.outcome = "panic"

====
